---------------------------- MODULE Spec2Model ----------------------------
(***************************************************************************)
(* ABI event extraction and deduplication pipeline                         *)
(* (src/services/abi_service.py, src/jobs/abi_events_job.py).              *)
(*                                                                         *)
(* JSON values.  A JSON object is the TLA+ record of its members.  A JSON  *)
(* value of any other kind is a record with the reserved member `json`    *)
(* naming its kind: an array carries its elements in `items`.  Strings    *)
(* that the code only copies or concatenates (names, type names) are      *)
(* TLA+ strings.                                                           *)
(*                                                                         *)
(* Files.  The text of a file is modelled by what a JSON decoder sees in   *)
(* it: the sequence of complete top-level JSON values it holds, one after  *)
(* the other, and whether an undecodable fragment follows them.  The file  *)
(* system is a function from paths to texts; a path outside its domain    *)
(* does not exist.                                                         *)
(***************************************************************************)
EXTENDS Integers, Sequences, FiniteSets, TLC

VARIABLES fs, call, fault, result

vars == <<fs, call, fault, result>>

(***************************************************************************)
(* Bounds of the model.                                                    *)
(***************************************************************************)
\* longest ABI array of a well-formed single-array source
MaxAbiLen == 2
\* most top-level values in a source made of adjacent values
MaxValues == 2

(***************************************************************************)
(* JSON values                                                             *)
(***************************************************************************)
Arr(s) == [json |-> "array", items |-> s]

Num == [json |-> "number"]

EmptyObj == [k \in {} |-> Num]

IsObj(v) == "json" \notin DOMAIN v

IsArr(v) == ("json" \in DOMAIN v) /\ v.json = "array"

\* dict.get(key, default)
Get(obj, key, default) == IF key \in DOMAIN obj THEN obj[key] ELSE default

\* what a Python `for` loop over a decoded JSON value visits: the elements of
\* a list, the keys (strings, not objects) of a dict
Iter(v) ==
    IF IsArr(v) THEN v.items
    ELSE [i \in 1..Cardinality(DOMAIN v) |-> [json |-> "string"]]

\* number, null, true, false: `for` raises TypeError
Iterable(v) == IsArr(v) \/ IsObj(v)

(***************************************************************************)
(* Outcomes of a call: a returned value or a raised exception.             *)
(***************************************************************************)
Return(v) == [raised |-> FALSE, value |-> v]

Raise(e) == [raised |-> TRUE, exc |-> e]

(***************************************************************************)
(* Texts and the decoder                                                   *)
(***************************************************************************)
Text(vs, tr) == [values |-> vs, truncated |-> tr]

\* json.dump / json.dumps of one value
json_dump(v) == Text(<<v>>, FALSE)

\* json.loads / json.load: the whole text must be exactly one value
json_loads(t) ==
    IF Len(t.values) = 1 /\ ~t.truncated
      THEN Return(t.values[1])
      ELSE Raise("JSONDecodeError")

\* a loop that keeps the values decoded before the failing attempt
raw_decode_keeping_values(t) == t.values

\* the raw_decode loop: the values decoded one after the other, or none at
\* all when a decode attempt fails before the end of the text
raw_decode_all(t) == IF t.truncated THEN <<>> ELSE t.values

\* merged = v in place of merged.extend(v): the last array alone
extend_keeping_last(values) ==
    IF values = <<>> THEN <<>> ELSE values[Len(values)].items

RECURSIVE extend_all(_)
\* merged = []; for v in values: merged.extend(v)
extend_all(values) ==
    IF values = <<>> THEN <<>>
    ELSE Head(values).items \o extend_all(Tail(values))

\* open(path, 'r') and read the text
open_r(files, path) ==
    IF path \in DOMAIN files THEN Return(files[path])
    ELSE Raise("FileNotFoundError")

\* open(path, 'r') and json.load
load_json(files, path) ==
    IF open_r(files, path).raised THEN open_r(files, path)
    ELSE json_loads(open_r(files, path).value)

\* the file system with `text` written at `path`
Written(files, path, text) ==
    [p \in DOMAIN files \cup {path} |-> IF p = path THEN text ELSE files[p]]

\* the file system without the file at `path`
Removed(files, path) == [p \in DOMAIN files \ {path} |-> files[p]]

(***************************************************************************)
(* Paths                                                                   *)
(***************************************************************************)
\* a path is its directory and the parts of its file name between dots
Path(dir, parts) == [dir |-> dir, name |-> parts]

RECURSIVE Join(_, _)
\* sep.join(parts)
Join(parts, sep) ==
    IF parts = <<>> THEN ""
    ELSE IF Len(parts) = 1 THEN parts[1]
    ELSE parts[1] \o sep \o Join(Tail(parts), sep)

\* a stem that ends at the first dot of the name
stem_to_first_dot(p) == p.name[1]

\* pathlib.Path(p).stem: the name without its last suffix; a name with no
\* dot, with only a leading dot or with a trailing dot has no suffix
Stem(p) ==
    LET n == Len(p.name) IN
    IF n >= 2 /\ p.name[n] # "" /\ ~(n = 2 /\ p.name[1] = "")
      THEN Join(SubSeq(p.name, 1, n - 1), ".")
      ELSE Join(p.name, ".")

\* the file NamedTemporaryFile(suffix=".json") creates
TmpPath == Path("/tmp", <<"tmpfile", "json">>)

(***************************************************************************)
(* ABIEventService                                                         *)
(***************************************************************************)
\* the position of the first element of a non-empty sequence of outcomes
\* that raised
FirstRaised(outs) ==
    CHOOSE i \in 1..Len(outs) :
        outs[i].raised /\ \A j \in 1..(i - 1) : ~outs[j].raised

AnyRaised(outs) == \E i \in 1..Len(outs) : outs[i].raised

\* a filter that takes an entry without type for an event
extract_events_defaulting_type(abi_data) ==
    IF ~Iterable(abi_data) THEN Raise("TypeError")
    ELSE IF \E i \in 1..Len(Iter(abi_data)) : ~IsObj(Iter(abi_data)[i])
      THEN Raise("AttributeError")
    ELSE Return(SelectSeq(Iter(abi_data),
                          LAMBDA item : Get(item, "type", "event") = "event"))

\* the entries with type "event", in order; item.get raises on an entry that
\* is not an object
extract_events_from_abi(abi_data) ==
    IF ~Iterable(abi_data) THEN Raise("TypeError")
    ELSE IF \E i \in 1..Len(Iter(abi_data)) : ~IsObj(Iter(abi_data)[i])
      THEN Raise("AttributeError")
    ELSE Return(SelectSeq(Iter(abi_data),
                          LAMBDA item : ("type" \in DOMAIN item) /\ item.type = "event"))

load_abi_from_file(files, file_path) == load_json(files, file_path)

\* a load that takes a file it cannot decode for a missing one
load_target_file_lenient(files, file_path) ==
    IF file_path \notin DOMAIN files \/ load_json(files, file_path).raised
      THEN Return([_id |-> Stem(file_path), addresses |-> EmptyObj,
                   event_abi |-> Arr(<<>>)])
      ELSE load_json(files, file_path)

\* an absent target is a new structure named after the file
load_target_file(files, file_path) ==
    IF file_path \notin DOMAIN files
      THEN Return([_id |-> Stem(file_path), addresses |-> EmptyObj,
                   event_abi |-> Arr(<<>>)])
      ELSE load_json(files, file_path)

\* a signature that also spells the names of the inputs
get_event_signature_with_input_names(event) ==
    IF ~IsObj(event) THEN Raise("AttributeError")
    ELSE LET name == Get(event, "name", "")
             inputs == Get(event, "inputs", Arr(<<>>))
         IN IF ~Iterable(inputs) THEN Raise("TypeError")
            ELSE IF \E i \in 1..Len(Iter(inputs)) : ~IsObj(Iter(inputs)[i])
              THEN Raise("AttributeError")
            ELSE LET input_types ==
                         [i \in 1..Len(Iter(inputs)) |->
                             Get(Iter(inputs)[i], "type", "") \o " "
                                 \o Get(Iter(inputs)[i], "name", "")]
                 IN Return(name \o "(" \o Join(input_types, ",") \o ")")

\* name(type1,type2,...)
get_event_signature(event) ==
    IF ~IsObj(event) THEN Raise("AttributeError")
    ELSE LET name == Get(event, "name", "")
             inputs == Get(event, "inputs", Arr(<<>>))
         IN IF ~Iterable(inputs) THEN Raise("TypeError")
            ELSE IF \E i \in 1..Len(Iter(inputs)) : ~IsObj(Iter(inputs)[i])
              THEN Raise("AttributeError")
            ELSE LET input_types ==
                         [i \in 1..Len(Iter(inputs)) |-> Get(Iter(inputs)[i], "type", "")]
                 IN Return(name \o "(" \o Join(input_types, ",") \o ")")

\* the signature outcome of every event of a sequence
Signatures(events) == [i \in 1..Len(events) |-> get_event_signature(events[i])]

RECURSIVE merge_loop(_, _, _)
\* the loop over new_events: append an event whose signature is not yet in
\* existing_signatures, and add the signature to the set
merge_loop(merged_events, existing_signatures, new_events) ==
    IF new_events = <<>> THEN merged_events
    ELSE LET event == Head(new_events)
             signature == get_event_signature(event).value
         IN IF signature \notin existing_signatures
              THEN merge_loop(Append(merged_events, event),
                              existing_signatures \cup {signature}, Tail(new_events))
              ELSE merge_loop(merged_events, existing_signatures, Tail(new_events))

\* the set built by the first loop, over existing_events
SignatureSet(events) == {get_event_signature(events[i]).value : i \in 1..Len(events)}

\* the exception get_event_signature raises first, over existing_events and
\* then over new_events
MergeRaises(existing_events, new_events) ==
    LET outs == Signatures(existing_events \o new_events)
    IN IF AnyRaised(outs) THEN Raise(outs[FirstRaised(outs)].exc) ELSE Return(<<>>)

\* a merge that forgets to build the set of existing signatures
merge_without_lookup(existing_events, new_events) ==
    IF MergeRaises(existing_events, new_events).raised
      THEN MergeRaises(existing_events, new_events)
      ELSE Return(merge_loop(existing_events, {}, new_events))

RECURSIVE loop_without_add(_, _, _)
loop_without_add(merged_events, existing_signatures, new_events) ==
    IF new_events = <<>> THEN merged_events
    ELSE IF get_event_signature(Head(new_events)).value \notin existing_signatures
      THEN loop_without_add(Append(merged_events, Head(new_events)),
                            existing_signatures, Tail(new_events))
      ELSE loop_without_add(merged_events, existing_signatures, Tail(new_events))

\* a merge that does not add the signature of an appended event to the set
merge_without_add(existing_events, new_events) ==
    IF MergeRaises(existing_events, new_events).raised
      THEN MergeRaises(existing_events, new_events)
      ELSE Return(loop_without_add(existing_events, SignatureSet(existing_events),
                                   new_events))

\* a merge that puts the new events in front of the existing ones
merge_prepending(existing_events, new_events) ==
    IF MergeRaises(existing_events, new_events).raised
      THEN MergeRaises(existing_events, new_events)
      ELSE Return(merge_loop(<<>>, SignatureSet(existing_events), new_events)
                  \o existing_events)

\* a merge that starts from an empty list instead of a copy of existing_events
merge_without_copy(existing_events, new_events) ==
    IF MergeRaises(existing_events, new_events).raised
      THEN MergeRaises(existing_events, new_events)
      ELSE Return(merge_loop(<<>>, SignatureSet(existing_events), new_events))

\* merged_events = existing_events without the copy: the appends show in the
\* list the caller passed
merge_leaves_without_copy(existing_events, new_events) ==
    [existing_events |->
        merge_loop(existing_events, SignatureSet(existing_events), new_events),
     new_events |-> new_events]

\* the lists passed to merge_events_with_unique_check as the call leaves
\* them: the appends go to the copy of existing_events, new_events is only
\* read
merge_leaves(existing_events, new_events) ==
    [existing_events |-> existing_events, new_events |-> new_events]

RECURSIVE loop_overwriting(_, _)
\* a loop in which an event whose signature is stored overwrites the records
\* of that signature
loop_overwriting(merged_events, new_events) ==
    IF new_events = <<>> THEN merged_events
    ELSE LET event == Head(new_events)
             signature == get_event_signature(event).value
         IN IF signature \in SignatureSet(merged_events)
              THEN loop_overwriting(
                       [i \in 1..Len(merged_events) |->
                           IF get_event_signature(merged_events[i]).value = signature
                             THEN event ELSE merged_events[i]],
                       Tail(new_events))
              ELSE loop_overwriting(Append(merged_events, event), Tail(new_events))

\* a merge in which an incoming event takes the place of the stored record
\* of its signature
merge_last_record_wins(existing_events, new_events) ==
    IF MergeRaises(existing_events, new_events).raised
      THEN MergeRaises(existing_events, new_events)
      ELSE Return(loop_overwriting(existing_events, new_events))

\* a merge that keeps the new events alone, as if nothing existed
merge_replacing(existing_events, new_events) ==
    IF MergeRaises(existing_events, new_events).raised
      THEN MergeRaises(existing_events, new_events)
      ELSE Return(merge_loop(<<>>, {}, new_events))

merge_events_with_unique_check(existing_events, new_events) ==
    IF MergeRaises(existing_events, new_events).raised
      THEN MergeRaises(existing_events, new_events)
      ELSE Return(merge_loop(existing_events, SignatureSet(existing_events), new_events))

\* an outcome that also carries the file system the call leaves behind
ReturnFs(files) == [raised |-> FALSE, files |-> files]

RaiseFs(e, files) == [raised |-> TRUE, exc |-> e, files |-> files]

\* file_data with file_data["event_abi"] = events
WithEventAbi(file_data, events) ==
    [k \in DOMAIN file_data \cup {"event_abi"} |->
        IF k = "event_abi" THEN Arr(events) ELSE file_data[k]]

\* the text a write interrupted midway leaves: open(path, 'w') has emptied
\* the file and the document is not complete
PartialText == Text(<<>>, TRUE)

\* a save that writes a new structure instead of updating the loaded one
save_events_as_new_structure(files, target_file_path, events, flt) ==
    IF load_target_file(files, target_file_path).raised
      THEN RaiseFs(load_target_file(files, target_file_path).exc, files)
    ELSE IF flt \in {"write_denied", "write_partial"} THEN RaiseFs("OSError", files)
    ELSE ReturnFs(Written(files, target_file_path,
                          json_dump([_id |-> Stem(target_file_path), addresses |-> EmptyObj,
                                     event_abi |-> Arr(events)])))

\* load the file again, set event_abi, write the whole document back
save_events_to_file(files, target_file_path, events, flt) ==
    LET loaded == load_target_file(files, target_file_path) IN
    IF loaded.raised THEN RaiseFs(loaded.exc, files)
    ELSE IF ~IsObj(loaded.value) THEN RaiseFs("TypeError", files)
    ELSE IF flt = "write_denied" THEN RaiseFs("OSError", files)
    ELSE IF flt = "write_partial"
      THEN RaiseFs("OSError", Written(files, target_file_path, PartialText))
    ELSE ReturnFs(Written(files, target_file_path,
                          json_dump(WithEventAbi(loaded.value, events))))

extract_and_save_events(files, abi_file_path, target_file_path, flt) ==
    LET abi_data == load_abi_from_file(files, abi_file_path) IN
    IF abi_data.raised THEN RaiseFs(abi_data.exc, files)
    ELSE LET new_events == extract_events_from_abi(abi_data.value) IN
    IF new_events.raised THEN RaiseFs(new_events.exc, files)
    ELSE LET target_data == load_target_file(files, target_file_path) IN
    IF target_data.raised THEN RaiseFs(target_data.exc, files)
    ELSE IF ~IsObj(target_data.value) THEN RaiseFs("AttributeError", files)
    ELSE LET existing_events == Get(target_data.value, "event_abi", Arr(<<>>))
             merged_events ==
                 merge_events_with_unique_check(existing_events.items, new_events.value)
         IN IF merged_events.raised THEN RaiseFs(merged_events.exc, files)
            ELSE save_events_to_file(files, target_file_path, merged_events.value, flt)

\* a summary that takes every event for unique
get_events_summary_assuming_unique(files, file_path) ==
    LET data == load_target_file(files, file_path) IN
    IF data.raised THEN data
    ELSE IF ~IsObj(data.value) THEN Raise("AttributeError")
    ELSE LET events == Get(data.value, "event_abi", Arr(<<>>)).items IN
         IF \E i \in 1..Len(events) : ~IsObj(events[i]) THEN Raise("AttributeError")
         ELSE IF AnyRaised(Signatures(events))
           THEN Raise(Signatures(events)[FirstRaised(Signatures(events))].exc)
         ELSE Return([total_events |-> Len(events),
                      event_names |-> [i \in 1..Len(events) |->
                                          Get(events[i], "name", "Unknown")],
                      unique_signatures |-> Len(events)])

get_events_summary(files, file_path) ==
    LET data == load_target_file(files, file_path) IN
    IF data.raised THEN data
    ELSE IF ~IsObj(data.value) THEN Raise("AttributeError")
    ELSE LET events == Get(data.value, "event_abi", Arr(<<>>)).items IN
         IF \E i \in 1..Len(events) : ~IsObj(events[i]) THEN Raise("AttributeError")
         ELSE IF AnyRaised(Signatures(events))
           THEN Raise(Signatures(events)[FirstRaised(Signatures(events))].exc)
         ELSE Return([total_events |-> Len(events),
                      event_names |-> [i \in 1..Len(events) |->
                                          Get(events[i], "name", "Unknown")],
                      unique_signatures |->
                          Cardinality({Signatures(events)[i].value :
                                          i \in 1..Len(events)})])

(***************************************************************************)
(* ABIEventsJob                                                            *)
(***************************************************************************)
\* a normalizer that merges the arrays among two or more decoded values and
\* leaves the other values out
normalize_skipping_non_arrays(files, abi_file, flt) ==
    LET content == open_r(files, abi_file) IN
    IF content.raised THEN [path |-> abi_file, files |-> files]
    ELSE IF ~json_loads(content.value).raised THEN [path |-> abi_file, files |-> files]
    ELSE LET values == raw_decode_all(content.value) IN
         IF Len(values) >= 2
           THEN IF flt = "tmp_denied" THEN [path |-> abi_file, files |-> files]
                ELSE [path |-> TmpPath,
                      files |-> Written(files, TmpPath,
                                        json_dump(Arr(extend_all(SelectSeq(values, IsArr)))))]
           ELSE [path |-> abi_file, files |-> files]

\* a normalizer that returns the name of the temporary file although it
\* could not be written
normalize_returning_unwritten_file(files, abi_file, flt) ==
    LET content == open_r(files, abi_file) IN
    IF content.raised THEN [path |-> abi_file, files |-> files]
    ELSE IF ~json_loads(content.value).raised THEN [path |-> abi_file, files |-> files]
    ELSE LET values == raw_decode_all(content.value) IN
         IF Len(values) >= 2 /\ \A i \in 1..Len(values) : IsArr(values[i])
           THEN IF flt = "tmp_denied" THEN [path |-> TmpPath, files |-> files]
                ELSE [path |-> TmpPath,
                      files |-> Written(files, TmpPath,
                                        json_dump(Arr(extend_all(values))))]
           ELSE [path |-> abi_file, files |-> files]

\* the path to read the ABI from, and the file system with the temporary
\* file when one was written; never raises
normalize_adjacent_arrays_file(files, abi_file, flt) ==
    LET content == open_r(files, abi_file) IN
    IF content.raised THEN [path |-> abi_file, files |-> files]
    ELSE IF ~json_loads(content.value).raised THEN [path |-> abi_file, files |-> files]
    ELSE LET values == raw_decode_all(content.value) IN
         IF Len(values) >= 2 /\ \A i \in 1..Len(values) : IsArr(values[i])
           THEN IF flt = "tmp_denied" THEN [path |-> abi_file, files |-> files]
                ELSE [path |-> TmpPath,
                      files |-> Written(files, TmpPath,
                                        json_dump(Arr(extend_all(values))))]
           ELSE [path |-> abi_file, files |-> files]

\* a result that carries the number of stored events as a member of its own
success_with_event_count(summary, abi_file, target_file) ==
    [success |-> TRUE, summary |-> summary, events |-> summary.total_events,
     abi_file |-> abi_file, target_file |-> target_file]

Success(summary, abi_file, target_file) ==
    [success |-> TRUE, summary |-> summary,
     abi_file |-> abi_file, target_file |-> target_file]

Failure(exc, abi_file, target_file) ==
    [success |-> FALSE, error |-> exc,
     abi_file |-> abi_file, target_file |-> target_file]

\* the body of extract_events: the returned result (carrying `reported` as
\* abi_file) and the file system left behind
run_extraction(files, norm, reported, target_file, force, flt) ==
    LET source_path == norm.path
        forced ==
            LET abi_data == load_abi_from_file(norm.files, source_path) IN
            IF abi_data.raised THEN RaiseFs(abi_data.exc, norm.files)
            ELSE LET new_events == extract_events_from_abi(abi_data.value) IN
                 IF new_events.raised THEN RaiseFs(new_events.exc, norm.files)
                 ELSE save_events_to_file(norm.files, target_file, new_events.value, flt)
        saved == IF force THEN forced
                 ELSE extract_and_save_events(norm.files, source_path, target_file, flt)
    IN IF saved.raised
         THEN [result |-> Failure(saved.exc, reported, target_file), files |-> saved.files]
         ELSE LET summary == get_events_summary(saved.files, target_file) IN
              IF summary.raised
                THEN [result |-> Failure(summary.exc, reported, target_file),
                      files |-> saved.files]
                ELSE [result |-> Success(summary.value, reported, target_file),
                      files |-> saved.files]

\* an extract_events that never takes the force branch
extract_events_always_merging(files, abi_file, target_file, force, flt) ==
    run_extraction(files, normalize_adjacent_arrays_file(files, abi_file, flt),
                   abi_file, target_file, FALSE, flt)

\* an extract_events that reports the path it read instead of the one given
extract_events_reporting_source_path(files, abi_file, target_file, force, flt) ==
    run_extraction(files, normalize_adjacent_arrays_file(files, abi_file, flt),
                   normalize_adjacent_arrays_file(files, abi_file, flt).path,
                   target_file, force, flt)

extract_events(files, abi_file, target_file, force, flt) ==
    run_extraction(files, normalize_adjacent_arrays_file(files, abi_file, flt),
                   abi_file, target_file, force, flt)

(***************************************************************************)
(* The inputs: ABI entries, source texts, target files, faults             *)
(***************************************************************************)
SeqsUpTo(S, n) == UNION {[1..k -> S] : k \in 0..n}

EvTransfer ==
    [type |-> "event", name |-> "Transfer", anonymous |-> FALSE,
     inputs |-> Arr(<<[type |-> "address", name |-> "to", indexed |-> TRUE],
                      [type |-> "uint256", name |-> "value"]>>)]

\* the signature of EvTransfer, other members differ
EvTransferAnon ==
    [type |-> "event", name |-> "Transfer", anonymous |-> TRUE,
     inputs |-> Arr(<<[type |-> "address"], [type |-> "uint256"]>>)]

EvApproval ==
    [type |-> "event", name |-> "Approval",
     inputs |-> Arr(<<[type |-> "address", name |-> "spender"]>>)]

\* an event with neither name nor inputs
EvBare == [type |-> "event"]

\* an event whose inputs member is a number
EvBroken == [type |-> "event", name |-> "Broken", inputs |-> Num]

FnTransfer ==
    [type |-> "function", name |-> "Transfer",
     inputs |-> Arr(<<[type |-> "address"], [type |-> "uint256"]>>)]

CoreEvents == {EvTransfer, EvTransferAnon, EvApproval}

\* well-formed sources: one array of event entries
SingleArrayTexts == {json_dump(Arr(s)) : s \in SeqsUpTo(CoreEvents, MaxAbiLen)}

\* sources that decode to one value: an array with entries that are no
\* events, values the service trips over or treats leniently
OddTexts ==
    {json_dump(Arr(<<FnTransfer, EvTransfer, [name |-> "Transfer"]>>)),
     json_dump(Arr(<<EvBroken>>)), json_dump(Arr(<<EvBare, EvApproval>>)),
     json_dump(Arr(<<Num>>)), json_dump(EmptyObj),
     json_dump([abi |-> Arr(<<EvTransfer>>)]), json_dump(Num)}

AdjacentValues == {Arr(<<EvTransfer>>), Arr(<<EvApproval>>), EmptyObj}

\* sources that are no single JSON value: adjacent values, truncated text,
\* an empty file
AdjacentTexts ==
    {Text(vs, FALSE) : vs \in SeqsUpTo(AdjacentValues, MaxValues) \ SeqsUpTo(AdjacentValues, 1)}
    \cup {Text(vs, TRUE) : vs \in SeqsUpTo({Arr(<<EvTransfer>>)}, MaxValues)}
    \cup {Text(<<>>, FALSE)}

SourceTexts == SingleArrayTexts \cup OddTexts \cup AdjacentTexts

\* what is at the source path when an invocation starts: no file, or a text
SourceStates == {<<>>} \cup {<<t>> : t \in SourceTexts}

SourcePath == Path("abi", <<"pool", "json">>)

TargetPaths == {Path("data", <<"lista", "json">>), Path("data", <<"venus", "v2", "json">>)}

ExistingDoc(events) ==
    [_id |-> "lista", name |-> "Lista DAO", addresses |-> [pool |-> "0xA1"],
     event_abi |-> Arr(events)]

\* what is at the target path before the first invocation: no file, or one of
\* these texts (a document of earlier runs, a document without event_abi, an
\* array, a broken file)
TargetTexts ==
    {json_dump(ExistingDoc(<<EvTransfer, EvApproval>>)),
     json_dump([_id |-> "lista", addresses |-> EmptyObj]),
     json_dump(Arr(<<>>)),
     Text(<<>>, TRUE)}

TargetStates == {<<>>} \cup {<<t>> : t \in TargetTexts}

\* the file-system fault an invocation meets, if any: the temporary file
\* cannot be created, the target cannot be opened for writing, or the write
\* of the target breaks off after the file was emptied
Faults == {"none", "tmp_denied", "write_denied", "write_partial"}

\* `files` with the file at `path` as `state` says
WithFile(files, path, state) ==
    IF state = <<>> THEN Removed(files, path) ELSE Written(files, path, state[1])

NoFiles == [p \in {} |-> Text(<<>>, FALSE)]

NoResult == [pending |-> TRUE]

(***************************************************************************)
(* The state machine: one target file, a sequence of invocations on it     *)
(***************************************************************************)
\* the path matters only while the target does not exist: the second path
\* starts without a file
Init ==
    /\ \E target_file \in TargetPaths, t \in TargetStates :
          /\ target_file = Path("data", <<"lista", "json">>) \/ t = <<>>
          /\ fs = WithFile(NoFiles, target_file, t)
          /\ call = [abi_file |-> SourcePath, target_file |-> target_file, force |-> FALSE]
    /\ fault = "none"
    /\ result = NoResult

\* the files of `files` at the paths of P
Only(files, P) == [p \in DOMAIN files \cap P |-> files[p]]

\* one invocation of ABIEventsJob.extract_events by a fresh process: the
\* source file is what the environment left at abi_file; a fault is drawn
\* only where the invocation meets it
ExtractEvents(source, force, flt) ==
    LET files == WithFile(fs, call.abi_file, source)
        out == extract_events(files, call.abi_file, call.target_file, force, flt)
    IN /\ result = NoResult
       /\ flt # "none" =>
            out # extract_events(files, call.abi_file, call.target_file, force, "none")
       /\ fs' = out.files
       /\ result' = out.result
       /\ call' = [call EXCEPT !.force = force]
       /\ fault' = flt

\* the calling process reports the result and ends: what stays is the target
\* file; the source belongs to the environment and the temporary file is
\* never read again
Exit ==
    /\ result # NoResult
    /\ fs' = Only(fs, {call.target_file})
    /\ result' = NoResult
    /\ call' = [call EXCEPT !.force = FALSE]
    /\ fault' = "none"

Next ==
    \/ \E source \in SourceStates, force \in BOOLEAN, flt \in Faults :
            ExtractEvents(source, force, flt)
    \/ Exit

Spec == Init /\ [][Next]_vars

\* the same invocations, starting from an absent target file
InitFresh == Init /\ call.target_file \notin DOMAIN fs

SpecFresh == InitFresh /\ [][Next]_vars

(***************************************************************************)
(* The normalizer alone: one call of _normalize_adjacent_arrays_file on a  *)
(* source file                                                             *)
(***************************************************************************)
\* the top-level values of the source texts given to the normalizer: arrays
\* (empty, of entries, holding an array) and values that are no arrays
NormalizerValues ==
    {Arr(<<>>), Arr(<<EvTransfer>>), Arr(<<EvApproval, FnTransfer>>),
     Arr(<<Arr(<<EvTransfer>>)>>), EmptyObj, Num}

\* every text of up to MaxValues + 1 such values, complete or followed by
\* an undecodable fragment
NormalizerTexts ==
    {Text(vs, tr) : vs \in SeqsUpTo(NormalizerValues, MaxValues + 1), tr \in BOOLEAN}

InitNormalize ==
    /\ \E source \in {<<>>} \cup {<<t>> : t \in NormalizerTexts} :
          fs = WithFile(NoFiles, SourcePath, source)
    /\ call = [abi_file |-> SourcePath, target_file |-> Path("data", <<"lista", "json">>),
               force |-> FALSE]
    /\ fault = "none"
    /\ result = NoResult

\* one call of the normalizer; result holds the path it returns
Normalize(flt) ==
    LET norm == normalize_adjacent_arrays_file(fs, call.abi_file, flt)
    IN /\ result = NoResult
       /\ flt # "none" => norm # normalize_adjacent_arrays_file(fs, call.abi_file, "none")
       /\ fs' = norm.files
       /\ result' = [source_path |-> norm.path]
       /\ fault' = flt
       /\ UNCHANGED call

NextNormalize == \E flt \in {"none", "tmp_denied"} : Normalize(flt)

SpecNormalize == InitNormalize /\ [][NextNormalize]_vars

(***************************************************************************)
(* The service functions alone: one call of a function of ABIEventService  *)
(* on arguments held in memory                                             *)
(***************************************************************************)
\* entries of an ABI array: events, an entry of another type, an entry
\* without type, an entry whose type differs from "event" in case
AbiEntries ==
    {EvTransfer, EvApproval, EvBare, FnTransfer, [name |-> "Transfer"],
     [type |-> "Event", name |-> "Transfer"]}

\* the arguments of a call of extract_events_from_abi
ExtractCalls ==
    {[op |-> "extract_events_from_abi", abi_data |-> Arr(s)] :
        s \in SeqsUpTo(AbiEntries, MaxAbiLen + 1)}

\* a member that may be absent: no value, or one
Opt(key, o) == IF o = <<>> THEN EmptyObj ELSE key :> o[1]

\* the events given to get_event_signature: name absent, empty or given;
\* inputs absent, empty, of one or two types in either order, with and
\* without further members, without type; other members absent or given
SignatureEvents ==
    {Opt("name", n) @@ Opt("inputs", i) @@ others :
        n \in {<<>>, <<"">>, <<"Transfer">>, <<"Approval">>},
        i \in {<<>>, <<Arr(<<>>)>>, <<Arr(<<[type |-> "address"]>>)>>,
               <<Arr(<<[type |-> "address"], [type |-> "uint256"]>>)>>,
               <<Arr(<<[type |-> "uint256"], [type |-> "address"]>>)>>,
               <<Arr(<<[type |-> "address", name |-> "to", indexed |-> TRUE],
                       [type |-> "uint256", name |-> "value"]>>)>>,
               <<Arr(<<[name |-> "to"]>>)>>},
        others \in {EmptyObj, [type |-> "event"],
                    [type |-> "event", anonymous |-> TRUE]}}

\* the argument of a call of get_event_signature
SignatureCalls == {[op |-> "get_event_signature", event |-> e] : e \in SignatureEvents}

MergeEvents == {EvTransfer, EvTransferAnon, EvApproval, EvBare}

\* the arguments of a call of merge_events_with_unique_check
MergeCalls ==
    {[op |-> "merge_events_with_unique_check", existing_events |-> E, new_events |-> I] :
        E \in SeqsUpTo(MergeEvents, MaxAbiLen), I \in SeqsUpTo(MergeEvents, MaxAbiLen + 1)}

ServiceCalls == ExtractCalls \cup SignatureCalls \cup MergeCalls

InitService ==
    /\ call \in ServiceCalls
    /\ fs = NoFiles
    /\ fault = "none"
    /\ result = NoResult

\* one call of extract_events_from_abi; result holds its outcome
CallExtractEventsFromAbi ==
    /\ result = NoResult
    /\ call.op = "extract_events_from_abi"
    /\ result' = extract_events_from_abi(call.abi_data)
    /\ UNCHANGED <<fs, call, fault>>

\* one call of get_event_signature
CallGetEventSignature ==
    /\ result = NoResult
    /\ call.op = "get_event_signature"
    /\ result' = get_event_signature(call.event)
    /\ UNCHANGED <<fs, call, fault>>

\* one call of merge_events_with_unique_check; call holds the two lists as
\* the call leaves them
CallMergeEventsWithUniqueCheck ==
    /\ result = NoResult
    /\ call.op = "merge_events_with_unique_check"
    /\ result' = merge_events_with_unique_check(call.existing_events, call.new_events)
    /\ call' = [call EXCEPT
                  !.existing_events =
                      merge_leaves(call.existing_events, call.new_events).existing_events,
                  !.new_events =
                      merge_leaves(call.existing_events, call.new_events).new_events]
    /\ UNCHANGED <<fs, fault>>

NextService ==
    \/ CallExtractEventsFromAbi
    \/ CallGetEventSignature
    \/ CallMergeEventsWithUniqueCheck

SpecService == InitService /\ [][NextService]_vars

(***************************************************************************)
(* Two merge-mode invocations on one target, in either order               *)
(***************************************************************************)
\* the two orders of two sources
Orders == {"first_then_second", "second_then_first"}

\* the source of the n-th invocation of an order
SourceOf(c, order, n) ==
    IF (order = "first_then_second") = (n = 1) THEN c.first ELSE c.second

\* what stays when the process of an invocation with outcome `out` has
\* ended: the target file, and whether this and the earlier invocations
\* succeeded
Ran(success, target_file, out) ==
    [files |-> Only(out.files, {target_file}),
     success |-> Append(success, out.result.success)]

\* a target file and two sources
InitOrder ==
    /\ \E t \in TargetStates, first \in SourceStates, second \in SourceStates :
          /\ fs = WithFile(NoFiles, Path("data", <<"lista", "json">>), t)
          /\ call = [abi_file |-> SourcePath,
                     target_file |-> Path("data", <<"lista", "json">>),
                     force |-> FALSE, first |-> first, second |-> second]
    /\ fault = "none"
    /\ result = NoResult

\* the first merge-mode invocation of either order, from the same target
\* and meeting no fault: on `first` in one order, on `second` in the other
FirstRuns ==
    /\ result = NoResult
    /\ result' =
          [runs |-> 1,
           after |-> [order \in Orders |->
                        Ran(<<>>, call.target_file,
                            extract_events(WithFile(fs, call.abi_file,
                                                    SourceOf(call, order, 1)),
                                           call.abi_file, call.target_file,
                                           FALSE, "none"))]]
    /\ UNCHANGED <<fs, call, fault>>

\* the second invocation of either order, on the target the first left
SecondRuns ==
    /\ result # NoResult /\ result.runs = 1
    /\ result' =
          [runs |-> 2,
           after |-> [order \in Orders |->
                        Ran(result.after[order].success, call.target_file,
                            extract_events(WithFile(result.after[order].files,
                                                    call.abi_file,
                                                    SourceOf(call, order, 2)),
                                           call.abi_file, call.target_file,
                                           FALSE, "none"))]]
    /\ UNCHANGED <<fs, call, fault>>

NextOrder == FirstRuns \/ SecondRuns

SpecOrder == InitOrder /\ [][NextOrder]_vars

(***************************************************************************)
(* The invocation step by step: two processes, each running                *)
(* extract_events on a source of its own and the same target, one file     *)
(* operation after the other.  call[p] holds the position and the local    *)
(* variables of process p and the file operations it has carried out,      *)
(* result[p] what its invocation returned.                                 *)
(***************************************************************************)
Procs == {1, 2}

AbiFileOf(p) == Path("abi", <<IF p = 1 THEN "pool" ELSE "vault", "json">>)

\* NamedTemporaryFile gives every process a name of its own
TmpFileOf(p) == Path("/tmp", <<IF p = 1 THEN "tmpfile1" ELSE "tmpfile2", "json">>)

\* the sources of the two processes: an empty array, one event, an event
\* without name, two adjacent arrays, a truncated text
StepSources ==
    {json_dump(Arr(<<>>)), json_dump(Arr(<<EvTransfer>>)), json_dump(Arr(<<EvBare>>)),
     Text(<<Arr(<<EvTransfer>>), Arr(<<EvApproval>>)>>, FALSE), Text(<<>>, TRUE)}

\* a file operation: open(path, 'r') with the read that follows, or
\* open(path, 'w') with the write
Read(path) == [op |-> "read", path |-> path]

Write(path) == [op |-> "write", path |-> path]

InitSteps ==
    /\ \E t \in TargetStates, sources \in [Procs -> StepSources],
          force \in [Procs -> BOOLEAN] :
          /\ fs = Written(Written(WithFile(NoFiles, Path("data", <<"lista", "json">>), t),
                                  AbiFileOf(1), sources[1]),
                          AbiFileOf(2), sources[2])
          /\ call = [p \in Procs |->
                        [abi_file |-> AbiFileOf(p),
                         target_file |-> Path("data", <<"lista", "json">>),
                         force |-> force[p], pc |-> "normalize",
                         source_path |-> AbiFileOf(p), events |-> <<>>,
                         file_data |-> EmptyObj, io |-> <<>>]]
    /\ fault = "none"
    /\ result = [p \in Procs |-> NoResult]

\* process p goes on to `pc` with its local variables set as `locals` says
\* and the file operations `ops` carried out
GoOn(p, pc, locals, ops) ==
    /\ call' = [call EXCEPT ![p] =
                   [k \in DOMAIN call[p] |->
                       IF k = "pc" THEN pc
                       ELSE IF k = "io" THEN call[p].io \o ops
                       ELSE IF k \in DOMAIN locals THEN locals[k]
                       ELSE call[p][k]]]
    /\ UNCHANGED <<result, fault>>

\* the handler of extract_events: process p returns a failure
Fails(p, exc, ops) ==
    /\ call' = [call EXCEPT ![p].pc = "done", ![p].io = call[p].io \o ops]
    /\ result' = [result EXCEPT ![p] =
                     Failure(exc, call[p].abi_file, call[p].target_file)]
    /\ UNCHANGED <<fs, fault>>

\* source_path = self._normalize_adjacent_arrays_file(abi_file): the read
\* of the source and, for adjacent arrays, the write of the temporary file
StepNormalize(p) ==
    LET norm == normalize_adjacent_arrays_file(fs, call[p].abi_file, "none")
        wrote == norm.path # call[p].abi_file
    IN /\ call[p].pc = "normalize"
       /\ fs' = IF wrote THEN Written(fs, TmpFileOf(p), norm.files[norm.path]) ELSE fs
       /\ GoOn(p, "load_abi",
               [source_path |-> IF wrote THEN TmpFileOf(p) ELSE call[p].abi_file],
               <<Read(call[p].abi_file)>>
                  \o (IF wrote THEN <<Write(TmpFileOf(p))>> ELSE <<>>))

\* load_abi_from_file(source_path) and extract_events_from_abi, in either
\* mode
StepLoadAbi(p) ==
    LET abi_data == load_abi_from_file(fs, call[p].source_path)
        new_events == extract_events_from_abi(abi_data.value)
        ops == <<Read(call[p].source_path)>>
    IN /\ call[p].pc = "load_abi"
       /\ IF abi_data.raised THEN Fails(p, abi_data.exc, ops)
          ELSE IF new_events.raised THEN Fails(p, new_events.exc, ops)
          ELSE /\ GoOn(p, IF call[p].force THEN "save_load" ELSE "load_target",
                       [events |-> new_events.value], ops)
               /\ UNCHANGED fs

\* merge mode: load_target_file and merge_events_with_unique_check in
\* extract_and_save_events
StepLoadTarget(p) ==
    LET target_data == load_target_file(fs, call[p].target_file)
        existing_events == Get(target_data.value, "event_abi", Arr(<<>>))
        merged_events == merge_events_with_unique_check(existing_events.items,
                                                        call[p].events)
        ops == <<Read(call[p].target_file)>>
    IN /\ call[p].pc = "load_target"
       /\ IF target_data.raised THEN Fails(p, target_data.exc, ops)
          ELSE IF ~IsObj(target_data.value) THEN Fails(p, "AttributeError", ops)
          ELSE IF merged_events.raised THEN Fails(p, merged_events.exc, ops)
          ELSE /\ GoOn(p, "save_load", [events |-> merged_events.value], ops)
               /\ UNCHANGED fs

\* save_events_to_file: file_data = self.load_target_file(target_file_path)
StepSaveLoad(p) ==
    LET file_data == load_target_file(fs, call[p].target_file)
        ops == <<Read(call[p].target_file)>>
    IN /\ call[p].pc = "save_load"
       /\ IF file_data.raised THEN Fails(p, file_data.exc, ops)
          ELSE IF ~IsObj(file_data.value) THEN Fails(p, "TypeError", ops)
          ELSE /\ GoOn(p, "save_write", [file_data |-> file_data.value], ops)
               /\ UNCHANGED fs

\* a save that leaves the file alone when the events are those it holds
StepSaveWriteOnlyChanges(p) ==
    /\ call[p].pc = "save_write"
    /\ IF WithEventAbi(call[p].file_data, call[p].events) = call[p].file_data
         THEN /\ UNCHANGED fs
              /\ GoOn(p, "summary", EmptyObj, <<>>)
         ELSE /\ fs' = Written(fs, call[p].target_file,
                               json_dump(WithEventAbi(call[p].file_data, call[p].events)))
              /\ GoOn(p, "summary", EmptyObj, <<Write(call[p].target_file)>>)

\* a save that writes the document it loaded, event_abi not set
StepSaveWriteWithoutUpdate(p) ==
    /\ call[p].pc = "save_write"
    /\ fs' = Written(fs, call[p].target_file, json_dump(call[p].file_data))
    /\ GoOn(p, "summary", EmptyObj, <<Write(call[p].target_file)>>)

\* save_events_to_file: file_data["event_abi"] = events and the write of
\* the whole document
StepSaveWrite(p) ==
    /\ call[p].pc = "save_write"
    /\ fs' = Written(fs, call[p].target_file,
                     json_dump(WithEventAbi(call[p].file_data, call[p].events)))
    /\ GoOn(p, "summary", EmptyObj, <<Write(call[p].target_file)>>)

\* get_events_summary(target_file) and the return of extract_events
StepSummary(p) ==
    LET summary == get_events_summary(fs, call[p].target_file)
        ops == <<Read(call[p].target_file)>>
    IN /\ call[p].pc = "summary"
       /\ IF summary.raised THEN Fails(p, summary.exc, ops)
          ELSE /\ call' = [call EXCEPT ![p].pc = "done", ![p].io = call[p].io \o ops]
               /\ result' = [result EXCEPT ![p] =
                                Success(summary.value, call[p].abi_file,
                                        call[p].target_file)]
               /\ UNCHANGED <<fs, fault>>

NextSteps ==
    \E p \in Procs :
        \/ StepNormalize(p)
        \/ StepLoadAbi(p)
        \/ StepLoadTarget(p)
        \/ StepSaveLoad(p)
        \/ StepSaveWrite(p)
        \/ StepSummary(p)

SpecSteps == InitSteps /\ [][NextSteps]_vars

(***************************************************************************)
(* What the claims speak about                                             *)
(***************************************************************************)
\* an invocation has returned and its result is held
Returned == result # NoResult

Succeeded == Returned /\ result.success

\* this step is one invocation of extract_events
Invoked == result = NoResult /\ result' # NoResult

\* the persisted document as the service loads it from the target of call c
DocumentOf(files, c) == load_target_file(files, c.target_file)

HasDocumentOf(files, c) ==
    ~DocumentOf(files, c).raised /\ IsObj(DocumentOf(files, c).value)

\* the persisted event_abi (empty while there is no document)
EventAbiOf(files, c) ==
    IF HasDocumentOf(files, c)
      THEN Get(DocumentOf(files, c).value, "event_abi", Arr(<<>>)).items
      ELSE <<>>

\* the outcome of reading the event entries of the source of call c:
\* normalize, load, extract
IncomingOf(files, c, flt) ==
    LET norm == normalize_adjacent_arrays_file(files, c.abi_file, flt)
        abi_data == load_abi_from_file(norm.files, norm.path)
    IN IF abi_data.raised THEN abi_data ELSE extract_events_from_abi(abi_data.value)

\* the same, of the state
TargetExists == call.target_file \in DOMAIN fs

TargetDocument == DocumentOf(fs, call)

EventAbi == EventAbiOf(fs, call)

Incoming == IncomingOf(fs, call, fault)

\* no two entries whose signatures are equal
NoRepeatedSignature(events) ==
    LET sigs == Signatures(events) IN
    \A i, j \in 1..Len(events) :
        (i # j /\ ~sigs[i].raised /\ ~sigs[j].raised) => sigs[i].value # sigs[j].value

\* the event entries of the source of call c have pairwise distinct
\* signatures (or cannot be read at all)
DistinctSourceOf(files, c, flt) ==
    ~IncomingOf(files, c, flt).raised
        => NoRepeatedSignature(IncomingOf(files, c, flt).value)

IsPrefix(s, t) == Len(s) <= Len(t) /\ SubSeq(t, 1, Len(s)) = s

(***************************************************************************)
(* C1.  Merge is idempotent.  Whenever a merge-mode invocation has          *)
(* succeeded, so that the persisted event_abi is merge(E, I) for the       *)
(* event_abi E it found and the events I of its source: merging I again    *)
(* returns the persisted event_abi itself, and a second merge-mode         *)
(* invocation with the same source succeeds, reports the same number of    *)
(* events and leaves the target file as the first run wrote it.            *)
(***************************************************************************)
C1_MergeIdempotent ==
    (Succeeded /\ ~call.force) =>
        LET again == extract_events(fs, call.abi_file, call.target_file, FALSE, "none")
        IN /\ merge_events_with_unique_check(EventAbi, Incoming.value) = Return(EventAbi)
           /\ again.result.success
           /\ again.result.summary.total_events = result.summary.total_events
           /\ again.files[call.target_file] = fs[call.target_file]

\* a merge-mode run of a source holding a signature twice has succeeded and
\* stored events
C1_Witness ==
    /\ Succeeded /\ ~call.force
    /\ Len(Incoming.value) >= 2 /\ ~NoRepeatedSignature(Incoming.value)
    /\ Len(EventAbi) >= 2

(***************************************************************************)
(* C2.  No duplicate signatures.  As claimed, for every existing sequence  *)
(* E, with no precondition on E: after a successful merge-mode invocation  *)
(* the persisted event_abi, which is merge(E, I), holds no signature       *)
(* twice.                                                                  *)
(***************************************************************************)
C2_Original ==
    (Succeeded /\ ~call.force) => NoRepeatedSignature(EventAbi)

(***************************************************************************)
(* C2, amended.  For every existing sequence E that holds no signature     *)
(* twice and every incoming sequence I, merge(E, I) holds no signature     *)
(* twice: a successful merge-mode invocation that finds such an event_abi  *)
(* leaves such an event_abi.                                               *)
(***************************************************************************)
C2_NoDuplicateSignatures ==
    [][(/\ Invoked /\ ~call'.force /\ result'.success
        /\ NoRepeatedSignature(EventAbi))
          => NoRepeatedSignature(EventAbiOf(fs', call'))]_vars

\* a merge-mode run whose source holds a signature twice has left an
\* event_abi without repetition
C2_Witness ==
    /\ Succeeded /\ ~call.force
    /\ ~NoRepeatedSignature(Incoming.value)
    /\ EventAbi # <<>> /\ NoRepeatedSignature(EventAbi)

(***************************************************************************)
(* C3.  Target-document invariant, as claimed: starting from an absent     *)
(* target file, whatever invocations are applied (merge or force mode, any *)
(* sources), the persisted event_abi never holds two entries with equal    *)
(* signature, and every summary returned has unique_signatures equal to    *)
(* total_events.                                                           *)
(***************************************************************************)
C3_Original ==
    /\ NoRepeatedSignature(EventAbi)
    /\ Succeeded => result.summary.unique_signatures = result.summary.total_events

(***************************************************************************)
(* C3, amended.  Starting from an absent target file, event_abi holds no   *)
(* signature twice, and every invocation that is in merge mode, or in      *)
(* force mode with a source whose event entries have pairwise distinct     *)
(* signatures, keeps it so; the summary such an invocation returns has     *)
(* unique_signatures equal to total_events.                                *)
(***************************************************************************)
C3_TargetInvariant ==
    /\ NoRepeatedSignature(EventAbi)
    /\ [][(/\ Invoked
           /\ NoRepeatedSignature(EventAbi)
           /\ call'.force => DistinctSourceOf(fs', call', fault'))
          => /\ NoRepeatedSignature(EventAbiOf(fs', call'))
             /\ result'.success =>
                  result'.summary.unique_signatures = result'.summary.total_events]_vars

\* on a target that did not exist at first, a force-mode run of a source
\* with distinct signatures has stored two or more events
C3_Witness ==
    /\ Succeeded /\ call.force
    /\ TargetDocument.value._id = Stem(call.target_file)
    /\ Len(EventAbi) >= 2
    /\ result.summary.unique_signatures = result.summary.total_events

(***************************************************************************)
(* C4.  Order preservation, append-only.  merge(E, I) has E as an exact    *)
(* prefix: after every successful merge-mode invocation the event_abi it   *)
(* found is a prefix, same records in the same order, of the event_abi it  *)
(* leaves.                                                                 *)
(***************************************************************************)
C4_ExistingIsPrefix ==
    [][(Invoked /\ ~call'.force /\ result'.success)
          => IsPrefix(EventAbi, EventAbiOf(fs', call'))]_vars

\* a merge-mode run has appended one event of its source behind the two
\* events of the existing document
C4_Witness ==
    /\ Succeeded /\ ~call.force
    /\ Incoming.value = <<EvBare, EvApproval>>
    /\ EventAbi = <<EvTransfer, EvApproval, EvBare>>

\* how many entries of events have signature s
Occurrences(s, events) ==
    Cardinality({i \in 1..Len(events) :
                    /\ ~get_event_signature(events[i]).raised
                    /\ get_event_signature(events[i]).value = s})

(***************************************************************************)
(* C5.  No lost and no duplicated events over merge-mode re-runs.  A       *)
(* successful merge-mode invocation that finds an event_abi without        *)
(* repeated signature leaves every signature it found, and every           *)
(* signature of an event entry of its source, in event_abi exactly once.   *)
(* Over a sequence of such runs from an absent or duplicate-free target    *)
(* the signatures found are those of every source processed so far.        *)
(***************************************************************************)
C5_NoLostNoDuplicated ==
    [][(/\ Invoked /\ ~call'.force /\ result'.success
        /\ NoRepeatedSignature(EventAbi))
          => \A s \in SignatureSet(EventAbi)
                        \cup SignatureSet(IncomingOf(fs', call', fault').value) :
                Occurrences(s, EventAbiOf(fs', call')) = 1]_vars

\* a merge-mode run of a source overlapping what an earlier source left
C5_Witness ==
    /\ Succeeded /\ ~call.force
    /\ Incoming.value = <<EvTransfer, EvApproval>>
    /\ EventAbi = <<EvApproval, EvTransfer>>

(***************************************************************************)
(* C6.  Force mode replaces, merge mode appends.  A successful force-mode  *)
(* invocation leaves as event_abi exactly the event entries of the source, *)
(* in source order, whatever event_abi was; a successful merge-mode        *)
(* invocation leaves merge(previous event_abi, source events).  A target   *)
(* with 3 events and a source with 2 events, both present already, ends    *)
(* with 2 events under force and 3 without.                                *)
(***************************************************************************)
C6_ForceReplacesMergeAppends ==
    [][(Invoked /\ result'.success)
          => LET previous == EventAbi
                 incoming == IncomingOf(fs', call', fault').value
                 left == EventAbiOf(fs', call')
             IN /\ call'.force => left = incoming
                /\ ~call'.force =>
                     Return(left) = merge_events_with_unique_check(previous, incoming)
                /\ (/\ Len(previous) = 3 /\ Len(incoming) = 2
                    /\ NoRepeatedSignature(previous)
                    /\ SignatureSet(incoming) \subseteq SignatureSet(previous))
                     => Len(left) = IF call'.force THEN 2 ELSE 3]_vars

\* a force-mode run on the existing document has stored the two events of
\* its source, the same signature twice
C6_Witness ==
    /\ Succeeded /\ call.force
    /\ "name" \in DOMAIN TargetDocument.value
    /\ EventAbi = <<EvTransfer, EvTransferAnon>>

(***************************************************************************)
(* C7.  Frame condition.  A successful invocation, in either mode, on an   *)
(* existing target changes only event_abi: every other top-level member    *)
(* of the document has the value it had, and no member but event_abi is    *)
(* added.                                                                  *)
(***************************************************************************)
C7_OnlyEventAbiChanges ==
    [][(Invoked /\ result'.success /\ TargetExists)
          => LET before == DocumentOf(fs, call).value
                 after == DocumentOf(fs', call').value
             IN /\ DOMAIN after = DOMAIN before \cup {"event_abi"}
                /\ \A k \in DOMAIN before \ {"event_abi"} : after[k] = before[k]]_vars

\* a run has changed the event_abi of the existing document, whose other
\* members are in place
C7_Witness ==
    /\ Succeeded
    /\ "name" \in DOMAIN TargetDocument.value
    /\ TargetDocument.value.name = "Lista DAO"
    /\ TargetDocument.value._id = "lista"
    /\ TargetDocument.value.addresses = [pool |-> "0xA1"]
    /\ EventAbi = <<EvApproval>>

\* a text that is no single JSON value and not a run of two or more arrays
Undecodable(t) ==
    /\ ~(Len(t.values) = 1 /\ ~t.truncated)
    /\ ~(/\ ~t.truncated
         /\ Len(t.values) >= 2
         /\ \A i \in 1..Len(t.values) : IsArr(t.values[i]))

(***************************************************************************)
(* C8.  Malformed beyond recovery.  When the source text cannot be parsed  *)
(* as JSON even after normalization, the invocation, in either mode,       *)
(* returns success = false with a decode error, and the target file is as  *)
(* it was: not modified, and not created if it did not exist.              *)
(***************************************************************************)
C8_MalformedSourceFails ==
    [][(/\ Invoked
        /\ call'.abi_file \in DOMAIN fs'
        /\ Undecodable(fs'[call'.abi_file]))
          => /\ ~result'.success
             /\ result'.error = "JSONDecodeError"
             /\ Only(fs', {call.target_file}) = Only(fs, {call.target_file})]_vars

\* a force-mode run of two arrays followed by a truncated fragment has
\* failed and the target file still does not exist
C8_Witness ==
    /\ Returned /\ ~result.success /\ call.force
    /\ call.abi_file \in DOMAIN fs
    /\ fs[call.abi_file] = Text(<<Arr(<<EvTransfer>>), Arr(<<EvTransfer>>)>>, TRUE)
    /\ ~TargetExists

(***************************************************************************)
(* C9.  Error propagation.  extract_events never raises: for every source  *)
(* and mode an invocation returns, and what it returns is success = true   *)
(* with a summary and no error, or success = false with an error message   *)
(* and no summary, in both cases with the source path and the target path  *)
(* the caller gave.                                                        *)
(***************************************************************************)
C9_AlwaysAResult ==
    /\ ~Returned =>
          \A source \in SourceStates, force \in BOOLEAN, flt \in Faults :
              extract_events(WithFile(fs, call.abi_file, source), call.abi_file,
                             call.target_file, force, flt).result.success \in BOOLEAN
    /\ Returned =>
          /\ result.abi_file = call.abi_file
          /\ result.target_file = call.target_file
          /\ result.success \in BOOLEAN
          /\ result.success =>
                /\ DOMAIN result = {"success", "summary", "abi_file", "target_file"}
                /\ DOMAIN result.summary =
                       {"total_events", "event_names", "unique_signatures"}
          /\ ~result.success =>
                /\ DOMAIN result = {"success", "error", "abi_file", "target_file"}
                /\ result.error \in {"FileNotFoundError", "JSONDecodeError", "TypeError",
                                     "AttributeError", "OSError"}

\* a run that read the temporary file of the normalizer has returned a
\* summary under the path the caller gave
C9_Witness ==
    /\ Succeeded
    /\ TmpPath \in DOMAIN fs
    /\ result.abi_file = SourcePath

\* the event entries of the source of call c can be read and each has a
\* signature
ValidSourceOf(files, c, flt) ==
    /\ ~IncomingOf(files, c, flt).raised
    /\ ~AnyRaised(Signatures(IncomingOf(files, c, flt).value))

\* the file name without its extension, written out for the target paths
ExpectedId(path) == IF path.name = <<"lista", "json">> THEN "lista" ELSE "venus.v2"

(***************************************************************************)
(* C10.  An absent target is synthesized.  When the target path does not   *)
(* exist, an invocation with a valid source that meets no file-system      *)
(* fault succeeds in either mode, and the document it persists has _id     *)
(* equal to the target file name without extension, addresses equal to     *)
(* the empty object, and as event_abi the source events (force) or the     *)
(* merge of the source events into an empty sequence.                      *)
(***************************************************************************)
C10_AbsentTargetSynthesized ==
    [][(/\ Invoked /\ ~TargetExists /\ fault' = "none"
        /\ ValidSourceOf(fs', call', fault'))
          => LET incoming == IncomingOf(fs', call', fault').value
                 event_abi == IF call'.force THEN incoming
                              ELSE merge_events_with_unique_check(<<>>, incoming).value
             IN /\ result'.success
                /\ call.target_file \in DOMAIN fs'
                /\ fs'[call.target_file] =
                       json_dump([_id |-> ExpectedId(call.target_file),
                                  addresses |-> EmptyObj,
                                  event_abi |-> Arr(event_abi)])]_vars

\* a merge-mode run has created the document of the second target path
C10_Witness ==
    /\ Succeeded /\ ~call.force
    /\ TargetDocument.value._id = "venus.v2"
    /\ DOMAIN TargetDocument.value.addresses = {}
    /\ EventAbi = <<EvTransfer>>
    /\ Incoming.value = <<EvTransfer, EvTransferAnon>>

(***************************************************************************)
(* C11.  TargetDecodeError.  When the target file exists and its text is   *)
(* not one valid JSON value, an invocation returns success = false, in     *)
(* merge mode and in force mode, whatever the source is, and the target    *)
(* file holds the text it held.                                            *)
(***************************************************************************)
C11_BrokenTargetFails ==
    [][(/\ Invoked /\ TargetExists
        /\ json_loads(fs[call.target_file]).raised)
          => /\ ~result'.success
             /\ call.target_file \in DOMAIN fs'
             /\ fs'[call.target_file] = fs[call.target_file]]_vars

\* a force-mode run with a readable source of two events has failed with a
\* decode error, and the target is the broken text
C11_Witness ==
    /\ Returned /\ ~result.success /\ call.force
    /\ result.error = "JSONDecodeError"
    /\ ~Incoming.raised /\ Len(Incoming.value) = 2
    /\ TargetExists /\ json_loads(fs[call.target_file]).raised

RECURSIVE ItemsBefore(_, _)
\* how many elements the arrays values[1..i-1] hold together
ItemsBefore(values, i) ==
    IF i <= 1 THEN 0 ELSE ItemsBefore(values, i - 1) + Len(values[i - 1].items)

\* flat holds the elements of the arrays of values, array after array, each
\* element as it is
IsConcatenationOf(flat, values) ==
    /\ Len(flat) = ItemsBefore(values, Len(values) + 1)
    /\ \A i \in 1..Len(values) : \A j \in 1..Len(values[i].items) :
          flat[ItemsBefore(values, i) + j] = values[i].items[j]

\* whole-document parsing of t fails, incremental decoding consumes all of
\* t into two or more values, and every value is an array
AdjacentArrays(t) ==
    /\ ~(Len(t.values) = 1 /\ ~t.truncated)
    /\ ~t.truncated
    /\ Len(t.values) >= 2
    /\ \A i \in 1..Len(t.values) : IsArr(t.values[i])

(***************************************************************************)
(* C12.  Normalizer characterisation.  _normalize_adjacent_arrays_file     *)
(* returns the path of a new file only if whole-document parsing of the    *)
(* source fails, incremental decoding consumes the whole text into two or  *)
(* more values and every value is an array, and it does so for every such  *)
(* source when the temporary file can be written.  The new file then holds *)
(* one array: the elements of the decoded arrays in decode order, each     *)
(* element as it is (one level of flattening).  In every other case (a     *)
(* single complete JSON value of any shape among them) it returns the      *)
(* original path and writes no file.  The source file is never changed.    *)
(***************************************************************************)
C12_NormalizerCharacterised ==
    [][(result = NoResult /\ result' # NoResult)
          => LET adjacent == /\ call.abi_file \in DOMAIN fs
                             /\ AdjacentArrays(fs[call.abi_file])
             IN /\ (adjacent /\ fault' = "none") => result'.source_path # call.abi_file
                /\ result'.source_path # call.abi_file =>
                     /\ adjacent
                     /\ result'.source_path \in DOMAIN fs' \ DOMAIN fs
                     /\ ~json_loads(fs'[result'.source_path]).raised
                     /\ IsArr(json_loads(fs'[result'.source_path]).value)
                     /\ IsConcatenationOf(json_loads(fs'[result'.source_path]).value.items,
                                          fs[call.abi_file].values)
                /\ result'.source_path = call.abi_file => fs' = fs
                /\ Only(fs', {call.abi_file}) = fs]_vars

\* three adjacent arrays, one holding an array, have been merged into one
\* array of four elements, the inner array among them
C12_Witness ==
    /\ result # NoResult /\ "source_path" \in DOMAIN result
    /\ {call.abi_file, TmpPath} \subseteq DOMAIN fs
    /\ fs[call.abi_file] = Text(<<Arr(<<EvApproval, FnTransfer>>),
                                  Arr(<<Arr(<<EvTransfer>>)>>),
                                  Arr(<<EvTransfer>>)>>, FALSE)
    /\ result.source_path = TmpPath
    /\ fs[TmpPath] = json_dump(Arr(<<EvApproval, FnTransfer, Arr(<<EvTransfer>>),
                                     EvTransfer>>))

\* the entries of abi with type "event", in order
EventsOf(abi) ==
    SelectSeq(abi, LAMBDA item : IsObj(item) /\ "type" \in DOMAIN item /\ item.type = "event")

(***************************************************************************)
(* C13.  Adjacent-array input end to end.  For a source that is k >= 2     *)
(* concatenated JSON arrays A1..Ak of ABI entries, a merge-mode invocation *)
(* that meets no file-system fault, on a target that is absent or a        *)
(* document whose events have signatures, succeeds: the normalized array   *)
(* is A1 ++ ... ++ Ak and the event_abi left is merge(existing,            *)
(* events(A1 ++ ... ++ Ak)).  Two different one-event arrays merged into   *)
(* an empty event_abi give 2 events and 2 unique signatures; the same      *)
(* one-event array twice gives an array of 2 elements before the merge.    *)
(***************************************************************************)
C13_AdjacentArraysEndToEnd ==
    [][(/\ Invoked /\ ~call'.force /\ fault' = "none"
        /\ call'.abi_file \in DOMAIN fs'
        /\ AdjacentArrays(fs'[call'.abi_file])
        /\ HasDocumentOf(fs, call)
        /\ ~AnyRaised(Signatures(EventAbi)))
          => LET arrays == fs'[call'.abi_file].values
                 normalized == json_loads(fs'[TmpPath]).value.items
                 left == EventAbiOf(fs', call')
             IN /\ result'.success
                /\ IsConcatenationOf(normalized, arrays)
                /\ Return(left) =
                      merge_events_with_unique_check(EventAbi, EventsOf(normalized))
                /\ result'.summary.total_events = Len(left)
                /\ (/\ EventAbi = <<>>
                    /\ arrays = <<Arr(<<EvTransfer>>), Arr(<<EvApproval>>)>>)
                     => /\ left = <<EvTransfer, EvApproval>>
                        /\ result'.summary.total_events = 2
                        /\ result'.summary.unique_signatures = 2
                /\ arrays = <<Arr(<<EvTransfer>>), Arr(<<EvTransfer>>)>>
                     => /\ normalized = <<EvTransfer, EvTransfer>>
                        /\ EventAbi = <<>> => left = <<EvTransfer>>]_vars

\* a merge-mode run of two different one-event arrays has created the
\* document of the second target path with both events
C13_Witness ==
    /\ Succeeded /\ ~call.force
    /\ call.abi_file \in DOMAIN fs
    /\ fs[call.abi_file] = Text(<<Arr(<<EvTransfer>>), Arr(<<EvApproval>>)>>, FALSE)
    /\ TargetDocument.value._id = "venus.v2"
    /\ EventAbi = <<EvTransfer, EvApproval>>
    /\ result.summary.total_events = 2 /\ result.summary.unique_signatures = 2

\* the positions of the entries of abi whose type is "event"
EventPositions(abi) ==
    {i \in 1..Len(abi) : "type" \in DOMAIN abi[i] /\ abi[i].type = "event"}

(***************************************************************************)
(* C14.  extract_events_from_abi returns exactly the subsequence of the    *)
(* entries of the ABI array whose type equals "event": every such entry,   *)
(* in its original relative order and with its original content, and no    *)
(* other entry.  Entries of another type or without type are dropped, and  *)
(* no error is raised for them.                                            *)
(***************************************************************************)
C14_ExactlyTheEvents ==
    (result # NoResult /\ call.op = "extract_events_from_abi") =>
        LET abi == call.abi_data.items
            kept == EventPositions(abi)
        IN /\ ~result.raised
           /\ Len(result.value) = Cardinality(kept)
           /\ \A i \in kept :
                 result.value[Cardinality({j \in kept : j <= i})] = abi[i]

\* from an array of a function, an event and an entry without type the one
\* event has been returned
C14_Witness ==
    /\ result # NoResult /\ call.op = "extract_events_from_abi"
    /\ call.abi_data = Arr(<<FnTransfer, EvTransfer, [name |-> "Transfer"]>>)
    /\ result = Return(<<EvTransfer>>)

\* what the claim lets a signature depend on: the name ("" when absent) and
\* the types of the inputs in order (none when inputs is absent)
Identity(event) ==
    LET inputs == Get(event, "inputs", Arr(<<>>)).items
    IN <<Get(event, "name", ""), [i \in 1..Len(inputs) |-> Get(inputs[i], "type", "")]>>

(***************************************************************************)
(* C15.  Signature identity.  get_event_signature does not raise for an    *)
(* event without name or without inputs, and its value depends only on     *)
(* the name (absent counts as "") and the ordered types of the inputs      *)
(* (absent counts as none): every event with the same name and input       *)
(* types has the same signature, whatever its other members are.  So a     *)
(* merge whose new events each have the name and input types of an         *)
(* existing event returns the existing events and nothing more.            *)
(***************************************************************************)
C15_SignatureIdentity ==
    /\ (result # NoResult /\ call.op = "get_event_signature") =>
          /\ ~result.raised
          /\ \A other \in SignatureEvents :
                Identity(other) = Identity(call.event)
                    => get_event_signature(other) = result
    /\ (result # NoResult /\ call.op = "merge_events_with_unique_check") =>
          LET E == call.existing_events
              I == call.new_events
          IN (\A i \in 1..Len(I) : \E j \in 1..Len(E) : Identity(I[i]) = Identity(E[j]))
                => result = Return(E)

\* a merge of an event that differs from an existing one in its anonymous
\* flag and in the members of its inputs has returned the existing events
C15_Witness ==
    /\ result # NoResult /\ call.op = "merge_events_with_unique_check"
    /\ call.existing_events = <<EvTransfer, EvApproval>>
    /\ call.new_events = <<EvTransferAnon>>
    /\ result = Return(<<EvTransfer, EvApproval>>)

\* the summary of a list of events as the claim states it: the length, the
\* names in order, and the number of positions whose signature occurs at no
\* earlier position
SummaryOf(events) ==
    [total_events |-> Len(events),
     event_names |-> [i \in 1..Len(events) |->
                        IF "name" \in DOMAIN events[i] THEN events[i].name ELSE "Unknown"],
     unique_signatures |->
        Cardinality({i \in 1..Len(events) :
                        \A j \in 1..(i - 1) :
                            get_event_signature(events[j]) # get_event_signature(events[i])})]

(***************************************************************************)
(* C16.  Summary correctness.  For every persisted target document whose   *)
(* events have signatures, one holding a signature more than once among    *)
(* them, get_events_summary returns total_events = the length of           *)
(* event_abi, event_names = the names in event_abi order with "Unknown"    *)
(* for an absent name, and unique_signatures = the number of distinct      *)
(* signatures.  The summary a successful invocation returns is the         *)
(* summary of the document that invocation persisted.                      *)
(***************************************************************************)
C16_SummaryCorrect ==
    /\ (HasDocumentOf(fs, call) /\ ~AnyRaised(Signatures(EventAbi))) =>
          get_events_summary(fs, call.target_file) = Return(SummaryOf(EventAbi))
    /\ Succeeded =>
          /\ HasDocumentOf(fs, call) /\ TargetExists
          /\ result.summary = SummaryOf(EventAbi)

\* a run has returned the summary of a document of four events, one
\* signature twice and one event without name
C16_Witness ==
    /\ Succeeded
    /\ EventAbi = <<EvTransfer, EvTransferAnon, EvBare, EvApproval>>
    /\ result.summary =
          [total_events |-> 4,
           event_names |-> <<"Transfer", "Transfer", "Unknown", "Approval">>,
           unique_signatures |-> 3]

\* how many entries of incoming a merge into existing appends: those whose
\* signature is not among the signatures of existing and is at no earlier
\* position of incoming
NewlyAdded(existing, incoming) ==
    Cardinality({i \in 1..Len(incoming) :
                    /\ \A j \in 1..Len(existing) :
                          get_event_signature(existing[j]) # get_event_signature(incoming[i])
                    /\ \A j \in 1..(i - 1) :
                          get_event_signature(incoming[j]) # get_event_signature(incoming[i])})

\* the members of the result of a successful invocation
SuccessMembers == {"success", "summary", "abi_file", "target_file"}

(***************************************************************************)
(* C17, as claimed.  The result of a successful invocation carries,        *)
(* alongside the summary, a member holding the count of newly added events *)
(* in merge mode (the length of the merged event_abi minus the length of   *)
(* the previous event_abi) or the count of the events that replaced        *)
(* event_abi in force mode.                                                *)
(***************************************************************************)
C17_Original ==
    [][(Invoked /\ result'.success)
          => \E k \in DOMAIN result' \ SuccessMembers :
                result'[k] = IF call'.force
                               THEN Len(EventAbiOf(fs', call'))
                               ELSE Len(EventAbiOf(fs', call')) - Len(EventAbi)]_vars

(***************************************************************************)
(* C17, amended.  The result of a successful invocation has the members    *)
(* success, summary, abi_file and target_file and no other; no member      *)
(* holds a count of added or replaced events.  The counts follow from the  *)
(* summary: in merge mode summary.total_events minus the length of the     *)
(* previous event_abi is the number of newly added events, in force mode   *)
(* summary.total_events is the number of events of the source that         *)
(* replaced event_abi.                                                     *)
(***************************************************************************)
C17_CountOnlyInSummary ==
    [][(Invoked /\ result'.success)
          => LET incoming == IncomingOf(fs', call', fault').value
                 total_events == result'.summary.total_events
             IN /\ DOMAIN result' = SuccessMembers
                /\ DOMAIN result'.summary =
                      {"total_events", "event_names", "unique_signatures"}
                /\ ~call'.force =>
                      total_events - Len(EventAbi) = NewlyAdded(EventAbi, incoming)
                /\ call'.force => total_events = Len(incoming)]_vars

\* a merge-mode run of two events, one of them new to the existing
\* document, has returned a result of four members with a total of three
C17_Witness ==
    /\ Succeeded /\ ~call.force
    /\ DOMAIN result = SuccessMembers
    /\ "name" \in DOMAIN TargetDocument.value
    /\ Incoming.value = <<EvBare, EvApproval>>
    /\ result.summary.total_events = 3

(***************************************************************************)
(* C18.  Order-independent merging.  For any two sources S1 and S2 and     *)
(* any starting target without repeated signature, the set of signatures   *)
(* of event_abi after merge-mode runs of S1 then S2 equals the set after   *)
(* S2 then S1; when both runs succeed it is the union of the starting      *)
(* signatures with the signatures of the events of both sources.  (The     *)
(* order of event_abi may differ; the set does not.)                       *)
(***************************************************************************)
C18_OrderIndependent ==
    (result # NoResult /\ result.runs = 2
        /\ NoRepeatedSignature(EventAbi)) =>
        LET one == result.after.first_then_second
            other == result.after.second_then_first
            sources == [first |-> WithFile(fs, call.abi_file, call.first),
                        second |-> WithFile(fs, call.abi_file, call.second)]
        IN /\ SignatureSet(EventAbiOf(one.files, call))
                = SignatureSet(EventAbiOf(other.files, call))
           /\ one.success = <<other.success[2], other.success[1]>>
           /\ one.success = <<TRUE, TRUE>> =>
                 SignatureSet(EventAbiOf(one.files, call))
                    = SignatureSet(EventAbi)
                        \cup SignatureSet(IncomingOf(sources.first, call, "none").value)
                        \cup SignatureSet(IncomingOf(sources.second, call, "none").value)

\* from an absent target, two sources sharing one signature have left the
\* same three signatures in both orders, in event_abi of different order
C18_Witness ==
    /\ result # NoResult /\ result.runs = 2
    /\ ~TargetExists
    /\ EventAbiOf(result.after.first_then_second.files, call)
          = <<EvBare, EvApproval, EvTransfer>>
    /\ EventAbiOf(result.after.second_then_first.files, call)
          = <<EvTransfer, EvApproval, EvBare>>

\* the positions of I whose signature is not among the signatures of E and
\* is at no earlier position of I
NewPositions(E, I) ==
    {i \in 1..Len(I) :
        /\ \A j \in 1..Len(E) : get_event_signature(E[j]) # get_event_signature(I[i])
        /\ \A j \in 1..(i - 1) : get_event_signature(I[j]) # get_event_signature(I[i])}

(***************************************************************************)
(* C19.  Appended part of a merge.  merge_events_with_unique_check(E, I)   *)
(* is E followed by exactly the entries of I whose signature is not among  *)
(* the signatures of E and has not occurred earlier in I, in the order of  *)
(* I (a signature repeated inside I is taken at its first occurrence).     *)
(* The call leaves the lists E and I it was given as they were.            *)
(***************************************************************************)
C19_AppendedPart ==
    [][(/\ result = NoResult /\ result' # NoResult
        /\ call.op = "merge_events_with_unique_check")
          => LET E == call.existing_events
                 I == call.new_events
                 merged == result'.value
                 new == NewPositions(E, I)
             IN /\ ~result'.raised
                /\ IsPrefix(E, merged)
                /\ Len(merged) = Len(E) + Cardinality(new)
                /\ \A i \in new :
                      merged[Len(E) + Cardinality({j \in new : j <= i})] = I[i]
                /\ call'.existing_events = E
                /\ call'.new_events = I]_vars

\* a merge of three new events, the third with the signature of the first
\* and the second with the one existing, has appended the first alone
C19_Witness ==
    /\ result # NoResult /\ call.op = "merge_events_with_unique_check"
    /\ call.existing_events = <<EvApproval>>
    /\ call.new_events = <<EvTransfer, EvApproval, EvTransferAnon>>
    /\ result = Return(<<EvApproval, EvTransfer>>)

(***************************************************************************)
(* C20.  Normalizer abort is all-or-nothing.  When the source text holds   *)
(* an undecodable fragment, whatever complete values stand before it (two  *)
(* valid arrays, for one), whole-document parsing fails, the decoded       *)
(* values are discarded and no normalized file is written; the original    *)
(* source is read, the invocation returns success = false with a decode    *)
(* error in either mode, and the target file is as it was: no event of     *)
(* the leading arrays reaches it.                                          *)
(***************************************************************************)
C20_AbortIsAllOrNothing ==
    [][(/\ Invoked
        /\ call'.abi_file \in DOMAIN fs'
        /\ fs'[call'.abi_file].truncated)
          => /\ DOMAIN fs' \subseteq {call'.abi_file, call'.target_file}
             /\ ~result'.success
             /\ result'.error = "JSONDecodeError"
             /\ Only(fs', {call.target_file}) = Only(fs, {call.target_file})
             /\ EventAbiOf(fs', call') = EventAbi]_vars

\* a merge-mode run of two one-event arrays followed by a truncated
\* fragment has failed; the document still has no event_abi and there is no
\* normalized file
C20_Witness ==
    /\ Returned /\ ~result.success /\ ~call.force
    /\ call.abi_file \in DOMAIN fs
    /\ fs[call.abi_file] = Text(<<Arr(<<EvTransfer>>), Arr(<<EvTransfer>>)>>, TRUE)
    /\ TmpPath \notin DOMAIN fs
    /\ TargetExists /\ HasDocumentOf(fs, call)
    /\ "event_abi" \notin DOMAIN TargetDocument.value

(***************************************************************************)
(* C21.  Normalization never raises and never blocks downstream            *)
(* processing.  For every input (a source file that cannot be read, empty  *)
(* content, garbage, a temporary file that cannot be written) the call of  *)
(* _normalize_adjacent_arrays_file returns a path, the original one or     *)
(* that of a file it wrote.  Whenever it meets an internal error (the read *)
(* of the source or the write of the temporary file fails) the path is     *)
(* the original source path and the source is as it was, so that the      *)
(* failure shows at the load of the source that follows.                   *)
(***************************************************************************)
C21_NormalizationNeverRaises ==
    [][(result = NoResult /\ result' # NoResult)
          => LET internal_error == call.abi_file \notin DOMAIN fs \/ fault' = "tmp_denied"
             IN /\ DOMAIN result' = {"source_path"}
                /\ result'.source_path \in {call.abi_file, TmpPath}
                /\ result'.source_path = TmpPath => TmpPath \in DOMAIN fs'
                /\ internal_error =>
                      /\ result'.source_path = call.abi_file
                      /\ Only(fs', {call.abi_file}) = fs
                      /\ load_abi_from_file(fs', result'.source_path).raised
                /\ (call.abi_file \in DOMAIN fs /\ fs[call.abi_file].values = <<>>) =>
                      /\ result'.source_path = call.abi_file
                      /\ load_abi_from_file(fs', result'.source_path).exc = "JSONDecodeError"]_vars

\* the temporary file for three adjacent arrays could not be written: the
\* original path has been returned and no file was added
C21_Witness ==
    /\ result # NoResult /\ "source_path" \in DOMAIN result
    /\ fault = "tmp_denied"
    /\ call.abi_file \in DOMAIN fs
    /\ Len(fs[call.abi_file].values) = 3
    /\ result.source_path = call.abi_file
    /\ DOMAIN fs = {call.abi_file}

\* how many of the file operations io are the operation o
Count(io, o) == Cardinality({i \in 1..Len(io) : io[i] = o})

\* the invocation of process p has returned success
SucceededAt(p) == result[p] # NoResult /\ result[p].success

(***************************************************************************)
(* C22, as claimed.  Side-effect budget of one successful invocation:      *)
(* exactly one read of the source file, at most one write of a temporary   *)
(* normalized copy, exactly one read-or-create of the target, and exactly  *)
(* one full overwrite write of the target.                                 *)
(***************************************************************************)
C22_Original ==
    \A p \in Procs :
        SucceededAt(p) =>
            /\ Count(call[p].io, Read(call[p].abi_file)) = 1
            /\ Count(call[p].io, Write(TmpFileOf(p))) <= 1
            /\ Count(call[p].io, Read(call[p].target_file)) = 1
            /\ Count(call[p].io, Write(call[p].target_file)) = 1

(***************************************************************************)
(* C22, amended.  One successful invocation writes at most one temporary   *)
(* normalized copy; it reads the source file once when it wrote the copy,  *)
(* which it then reads once, and twice when it did not (in the normalizer  *)
(* and at the load); it opens the target for reading three times in merge  *)
(* mode (load, load again in the save, summary) and twice in force mode    *)
(* (load in the save, summary), the first of them being the read-or-       *)
(* create; it overwrites the target in full exactly once, after the reads  *)
(* but the last, also when zero events are added; and it carries out no    *)
(* other file operation.                                                   *)
(***************************************************************************)
C22_SideEffectBudget ==
    \A p \in Procs :
        SucceededAt(p) =>
            LET io == call[p].io
                copies == Count(io, Write(TmpFileOf(p)))
                target_reads == IF call[p].force THEN 2 ELSE 3
            IN /\ copies \in {0, 1}
               /\ Count(io, Read(call[p].abi_file)) = 2 - copies
               /\ Count(io, Read(TmpFileOf(p))) = copies
               /\ Count(io, Read(call[p].target_file)) = target_reads
               /\ Count(io, Write(call[p].target_file)) = 1
               /\ Len(io) = 3 + copies + target_reads
               /\ io[Len(io) - 1] = Write(call[p].target_file)
               /\ io[Len(io)] = Read(call[p].target_file)

\* a merge-mode run of an empty array has succeeded and left event_abi as
\* it was: it read the source twice and the target three times and wrote
\* the target once
C22_Witness ==
    /\ SucceededAt(1) /\ ~call[1].force
    /\ fs[call[1].abi_file] = json_dump(Arr(<<>>))
    /\ call[2].pc = "normalize"
    /\ EventAbiOf(fs, call[1]) = <<EvTransfer, EvApproval>>
    /\ call[1].io = <<Read(call[1].abi_file), Read(call[1].abi_file),
                      Read(call[1].target_file), Read(call[1].target_file),
                      Write(call[1].target_file), Read(call[1].target_file)>>

\* both invocations ran in merge mode and both returned success
BothMerged == \A p \in Procs : SucceededAt(p) /\ ~call[p].force

\* the signatures of the events of the source of process p
SourceSignatures(p) == SignatureSet(IncomingOf(fs, call[p], "none").value)

\* the signatures persisted in the target the processes share
PersistedSignatures == SignatureSet(EventAbiOf(fs, call[1]))

(***************************************************************************)
(* C23.  Read-modify-write hazard.  Two merge-mode invocations run         *)
(* concurrently on one target path, their steps (load of the target,       *)
(* merge, load again in the save, write) interleaved in any way.  When     *)
(* both have returned success, each has written the target once and the    *)
(* events of the source of the invocation that wrote last are persisted,   *)
(* so the events of at least one source are; the events of the other       *)
(* source need not be (the state of C23_Witness is reachable: a lost       *)
(* update that no lock or version check prevents).                         *)
(***************************************************************************)
C23_LastWriterWins ==
    BothMerged =>
        /\ \E p \in Procs : SourceSignatures(p) \subseteq PersistedSignatures
        /\ \A p \in Procs : Count(call[p].io, Write(call[p].target_file)) = 1

\* both invocations have reported success, one for the event Transfer and
\* one for an event without name, and the persisted event_abi holds the
\* second alone: the first is lost
C23_Witness ==
    /\ BothMerged
    /\ SourceSignatures(1) = {"Transfer(address,uint256)"}
    /\ SourceSignatures(2) = {"()"}
    /\ result[1].summary.total_events = 1
    /\ result[2].summary.total_events = 1
    /\ EventAbiOf(fs, call[1]) = <<EvBare>>
    /\ ~(SourceSignatures(1) \subseteq PersistedSignatures)

(***************************************************************************)
(* C24.  Failure implies untouched target.  When the file-system           *)
(* operations themselves succeed and an invocation returns success =       *)
(* false, in either mode and for any cause (an undecodable source, a       *)
(* source whose top-level value is not an array of objects, an event       *)
(* entry whose inputs is not a list of objects, an undecodable or          *)
(* non-object target), the target file is as it was before the            *)
(* invocation: not changed, and not created.                               *)
(***************************************************************************)
C24_FailureLeavesTarget ==
    [][(Invoked /\ fault' = "none" /\ ~result'.success)
          => Only(fs', {call.target_file}) = Only(fs, {call.target_file})]_vars

\* the entries of events whose signature is s, in their order
RecordsWith(s, events) ==
    SelectSeq(events, LAMBDA e : get_event_signature(e) = Return(s))

(***************************************************************************)
(* C25.  First record wins.  A successful merge-mode run leaves, for every *)
(* signature the persisted event_abi holds afterwards, the records it      *)
(* found stored under that signature exactly as they were, whatever the    *)
(* incoming events of that signature look like (other indexed or           *)
(* anonymous flags, other input names); a signature that was not stored    *)
(* gets one record, the first incoming event with that signature.  Over    *)
(* any sequence of merge-mode runs the record stored for a signature is    *)
(* therefore the first one ever merged.                                    *)
(***************************************************************************)
C25_FirstRecordWins ==
    [][(Invoked /\ ~call'.force /\ result'.success)
          => \A s \in SignatureSet(EventAbi) \cup SignatureSet(EventAbiOf(fs', call')) :
                RecordsWith(s, EventAbiOf(fs', call')) =
                    IF RecordsWith(s, EventAbi) # <<>>
                      THEN RecordsWith(s, EventAbi)
                      ELSE <<Head(RecordsWith(s, IncomingOf(fs', call', fault').value))>>]_vars

\* the second of two merge-mode runs into a target that started without
\* events: the first stored the anonymous Transfer record, the second brought
\* the Transfer record with named inputs, and the stored one is still the
\* first
C25_Witness ==
    /\ Succeeded /\ ~call.force
    /\ Incoming.value = <<EvTransfer>>
    /\ EvTransfer # EvTransferAnon
    /\ get_event_signature(EvTransfer) = get_event_signature(EvTransferAnon)
    /\ EventAbi = <<EvTransferAnon>>

=============================================================================
